---- MODULE Spec2Model ----
(***************************************************************************)
(* Model of app.py, the travel-trend dashboard: the side bar inputs, the   *)
(* web search with its fallback to placeholder rows, and the keyword-trend *)
(* extraction (clean -> lower-case -> split -> filter -> count -> rank).   *)
(*                                                                         *)
(* A string is a sequence of Unicode code points (65 is "A", 32 a space,   *)
(* 44032..55203 the Hangul syllables), so the character classes of the     *)
(* regular expression, of str.lower, str.split and str.isdigit are the     *)
(* code-point sets Python uses.                                            *)
(***************************************************************************)
EXTENDS Integers, Sequences, FiniteSets

VARIABLES city, start_date, end_date, ddgs, df, is_success,
          tokens, filtered_tokens, top_keywords, shown, pc

vars == <<city, start_date, end_date, ddgs, df, is_success,
          tokens, filtered_tokens, top_keywords, shown, pc>>

----------------------------------------------------------------------------
(* Bounds of the model.                                                    *)

\* the web search yields at most this many results in one run (the script
\* asks for max_results=15)
MaxResults == 2

\* the two dates are days 0..MaxDay
MaxDay == 1

----------------------------------------------------------------------------
(* Characters and the string methods the script uses.                      *)

\* the members of a finite set of integers, in increasing order
RECURSIVE Ascending(_)
Ascending(S) ==
    IF S = {} THEN <<>>
    ELSE LET hi == CHOOSE x \in S : \A y \in S : y <= x
         IN  Append(Ascending(S \ {hi}), hi)

\* a sequence given as a function on 1..n, written out as a tuple
AsTuple(f) == SubSeq(f, 1, Len(f))

\* str.isspace / the class \s of a str pattern
IsSpace(c) ==
    \/ c \in {9, 10, 11, 12, 13, 28, 29, 30, 31, 32, 133, 160, 5760}
    \/ c \in 8192..8202
    \/ c \in {8232, 8233, 8239, 8287, 12288}

\* the complement of the class [^0-9a-zA-Z<U+AC00>-<U+D7A3>\s]
IsKept(c) ==
    \/ c \in 48..57
    \/ c \in 97..122
    \/ c \in 65..90
    \/ c \in 44032..55203
    \/ IsSpace(c)

\* re.sub(r"[^0-9a-zA-Z...\s]", " ", text): one space for each other character
ReSub(text) ==
    AsTuple([i \in DOMAIN text |-> IF IsKept(text[i]) THEN text[i] ELSE 32])

\* the characters str.lower maps to one other character (Unicode 14.0, the
\* tables of CPython 3.11): <<lo, hi, step, delta>> stands for the characters
\* lo, lo + step, .., hi, each mapped to itself + delta
LowerRuns ==
    { <<65, 90, 1, 32>>, <<192, 214, 1, 32>>, <<216, 222, 1, 32>>, <<256, 302, 2, 1>>,
      <<306, 310, 2, 1>>, <<313, 327, 2, 1>>, <<330, 374, 2, 1>>, <<376, 376, 1, -121>>,
      <<377, 381, 2, 1>>, <<385, 385, 1, 210>>, <<386, 388, 2, 1>>, <<390, 390, 1, 206>>,
      <<391, 391, 1, 1>>, <<393, 394, 1, 205>>, <<395, 395, 1, 1>>, <<398, 398, 1, 79>>,
      <<399, 399, 1, 202>>, <<400, 400, 1, 203>>, <<401, 401, 1, 1>>, <<403, 403, 1, 205>>,
      <<404, 404, 1, 207>>, <<406, 406, 1, 211>>, <<407, 407, 1, 209>>, <<408, 408, 1, 1>>,
      <<412, 412, 1, 211>>, <<413, 413, 1, 213>>, <<415, 415, 1, 214>>, <<416, 420, 2, 1>>,
      <<422, 422, 1, 218>>, <<423, 423, 1, 1>>, <<425, 425, 1, 218>>, <<428, 428, 1, 1>>,
      <<430, 430, 1, 218>>, <<431, 431, 1, 1>>, <<433, 434, 1, 217>>, <<435, 437, 2, 1>>,
      <<439, 439, 1, 219>>, <<440, 440, 1, 1>>, <<444, 444, 1, 1>>, <<452, 452, 1, 2>>,
      <<453, 453, 1, 1>>, <<455, 455, 1, 2>>, <<456, 456, 1, 1>>, <<458, 458, 1, 2>>,
      <<459, 475, 2, 1>>, <<478, 494, 2, 1>>, <<497, 497, 1, 2>>, <<498, 500, 2, 1>>,
      <<502, 502, 1, -97>>, <<503, 503, 1, -56>>, <<504, 542, 2, 1>>, <<544, 544, 1, -130>>,
      <<546, 562, 2, 1>>, <<570, 570, 1, 10795>>, <<571, 571, 1, 1>>, <<573, 573, 1, -163>>,
      <<574, 574, 1, 10792>>, <<577, 577, 1, 1>>, <<579, 579, 1, -195>>, <<580, 580, 1, 69>>,
      <<581, 581, 1, 71>>, <<582, 590, 2, 1>>, <<880, 882, 2, 1>>, <<886, 886, 1, 1>>,
      <<895, 895, 1, 116>>, <<902, 902, 1, 38>>, <<904, 906, 1, 37>>, <<908, 908, 1, 64>>,
      <<910, 911, 1, 63>>, <<913, 929, 1, 32>>, <<931, 939, 1, 32>>, <<975, 975, 1, 8>>,
      <<984, 1006, 2, 1>>, <<1012, 1012, 1, -60>>, <<1015, 1015, 1, 1>>, <<1017, 1017, 1, -7>>,
      <<1018, 1018, 1, 1>>, <<1021, 1023, 1, -130>>, <<1024, 1039, 1, 80>>,
      <<1040, 1071, 1, 32>>, <<1120, 1152, 2, 1>>, <<1162, 1214, 2, 1>>, <<1216, 1216, 1, 15>>,
      <<1217, 1229, 2, 1>>, <<1232, 1326, 2, 1>>, <<1329, 1366, 1, 48>>,
      <<4256, 4293, 1, 7264>>, <<4295, 4295, 1, 7264>>, <<4301, 4301, 1, 7264>>,
      <<5024, 5103, 1, 38864>>, <<5104, 5109, 1, 8>>, <<7312, 7354, 1, -3008>>,
      <<7357, 7359, 1, -3008>>, <<7680, 7828, 2, 1>>, <<7838, 7838, 1, -7615>>,
      <<7840, 7934, 2, 1>>, <<7944, 7951, 1, -8>>, <<7960, 7965, 1, -8>>,
      <<7976, 7983, 1, -8>>, <<7992, 7999, 1, -8>>, <<8008, 8013, 1, -8>>,
      <<8025, 8031, 2, -8>>, <<8040, 8047, 1, -8>>, <<8072, 8079, 1, -8>>,
      <<8088, 8095, 1, -8>>, <<8104, 8111, 1, -8>>, <<8120, 8121, 1, -8>>,
      <<8122, 8123, 1, -74>>, <<8124, 8124, 1, -9>>, <<8136, 8139, 1, -86>>,
      <<8140, 8140, 1, -9>>, <<8152, 8153, 1, -8>>, <<8154, 8155, 1, -100>>,
      <<8168, 8169, 1, -8>>, <<8170, 8171, 1, -112>>, <<8172, 8172, 1, -7>>,
      <<8184, 8185, 1, -128>>, <<8186, 8187, 1, -126>>, <<8188, 8188, 1, -9>>,
      <<8486, 8486, 1, -7517>>, <<8490, 8490, 1, -8383>>, <<8491, 8491, 1, -8262>>,
      <<8498, 8498, 1, 28>>, <<8544, 8559, 1, 16>>, <<8579, 8579, 1, 1>>,
      <<9398, 9423, 1, 26>>, <<11264, 11311, 1, 48>>, <<11360, 11360, 1, 1>>,
      <<11362, 11362, 1, -10743>>, <<11363, 11363, 1, -3814>>, <<11364, 11364, 1, -10727>>,
      <<11367, 11371, 2, 1>>, <<11373, 11373, 1, -10780>>, <<11374, 11374, 1, -10749>>,
      <<11375, 11375, 1, -10783>>, <<11376, 11376, 1, -10782>>, <<11378, 11378, 1, 1>>,
      <<11381, 11381, 1, 1>>, <<11390, 11391, 1, -10815>>, <<11392, 11490, 2, 1>>,
      <<11499, 11501, 2, 1>>, <<11506, 11506, 1, 1>>, <<42560, 42604, 2, 1>>,
      <<42624, 42650, 2, 1>>, <<42786, 42798, 2, 1>>, <<42802, 42862, 2, 1>>,
      <<42873, 42875, 2, 1>>, <<42877, 42877, 1, -35332>>, <<42878, 42886, 2, 1>>,
      <<42891, 42891, 1, 1>>, <<42893, 42893, 1, -42280>>, <<42896, 42898, 2, 1>>,
      <<42902, 42920, 2, 1>>, <<42922, 42922, 1, -42308>>, <<42923, 42923, 1, -42319>>,
      <<42924, 42924, 1, -42315>>, <<42925, 42925, 1, -42305>>, <<42926, 42926, 1, -42308>>,
      <<42928, 42928, 1, -42258>>, <<42929, 42929, 1, -42282>>, <<42930, 42930, 1, -42261>>,
      <<42931, 42931, 1, 928>>, <<42932, 42946, 2, 1>>, <<42948, 42948, 1, -48>>,
      <<42949, 42949, 1, -42307>>, <<42950, 42950, 1, -35384>>, <<42951, 42953, 2, 1>>,
      <<42960, 42960, 1, 1>>, <<42966, 42968, 2, 1>>, <<42997, 42997, 1, 1>>,
      <<65313, 65338, 1, 32>>, <<66560, 66599, 1, 40>>, <<66736, 66771, 1, 40>>,
      <<66928, 66938, 1, 39>>, <<66940, 66954, 1, 39>>, <<66956, 66962, 1, 39>>,
      <<66964, 66965, 1, 39>>, <<68736, 68786, 1, 64>>, <<71840, 71871, 1, 32>>,
      <<93760, 93791, 1, 32>>, <<125184, 125217, 1, 34>> }

\* the ranges <<lo, hi>> of the case-ignorable characters
CaseIgnorableRanges ==
    { <<39, 39>>, <<46, 46>>, <<58, 58>>, <<94, 94>>, <<96, 96>>, <<168, 168>>, <<173, 173>>,
      <<175, 175>>, <<180, 180>>, <<183, 184>>, <<688, 879>>, <<884, 885>>, <<890, 890>>,
      <<900, 901>>, <<903, 903>>, <<1155, 1161>>, <<1369, 1369>>, <<1375, 1375>>,
      <<1425, 1469>>, <<1471, 1471>>, <<1473, 1474>>, <<1476, 1477>>, <<1479, 1479>>,
      <<1524, 1524>>, <<1536, 1541>>, <<1552, 1562>>, <<1564, 1564>>, <<1600, 1600>>,
      <<1611, 1631>>, <<1648, 1648>>, <<1750, 1757>>, <<1759, 1768>>, <<1770, 1773>>,
      <<1807, 1807>>, <<1809, 1809>>, <<1840, 1866>>, <<1958, 1968>>, <<2027, 2037>>,
      <<2042, 2042>>, <<2045, 2045>>, <<2070, 2093>>, <<2137, 2139>>, <<2184, 2184>>,
      <<2192, 2193>>, <<2200, 2207>>, <<2249, 2306>>, <<2362, 2362>>, <<2364, 2364>>,
      <<2369, 2376>>, <<2381, 2381>>, <<2385, 2391>>, <<2402, 2403>>, <<2417, 2417>>,
      <<2433, 2433>>, <<2492, 2492>>, <<2497, 2500>>, <<2509, 2509>>, <<2530, 2531>>,
      <<2558, 2558>>, <<2561, 2562>>, <<2620, 2620>>, <<2625, 2626>>, <<2631, 2632>>,
      <<2635, 2637>>, <<2641, 2641>>, <<2672, 2673>>, <<2677, 2677>>, <<2689, 2690>>,
      <<2748, 2748>>, <<2753, 2757>>, <<2759, 2760>>, <<2765, 2765>>, <<2786, 2787>>,
      <<2810, 2815>>, <<2817, 2817>>, <<2876, 2876>>, <<2879, 2879>>, <<2881, 2884>>,
      <<2893, 2893>>, <<2901, 2902>>, <<2914, 2915>>, <<2946, 2946>>, <<3008, 3008>>,
      <<3021, 3021>>, <<3072, 3072>>, <<3076, 3076>>, <<3132, 3132>>, <<3134, 3136>>,
      <<3142, 3144>>, <<3146, 3149>>, <<3157, 3158>>, <<3170, 3171>>, <<3201, 3201>>,
      <<3260, 3260>>, <<3263, 3263>>, <<3270, 3270>>, <<3276, 3277>>, <<3298, 3299>>,
      <<3328, 3329>>, <<3387, 3388>>, <<3393, 3396>>, <<3405, 3405>>, <<3426, 3427>>,
      <<3457, 3457>>, <<3530, 3530>>, <<3538, 3540>>, <<3542, 3542>>, <<3633, 3633>>,
      <<3636, 3642>>, <<3654, 3662>>, <<3761, 3761>>, <<3764, 3772>>, <<3782, 3782>>,
      <<3784, 3789>>, <<3864, 3865>>, <<3893, 3893>>, <<3895, 3895>>, <<3897, 3897>>,
      <<3953, 3966>>, <<3968, 3972>>, <<3974, 3975>>, <<3981, 3991>>, <<3993, 4028>>,
      <<4038, 4038>>, <<4141, 4144>>, <<4146, 4151>>, <<4153, 4154>>, <<4157, 4158>>,
      <<4184, 4185>>, <<4190, 4192>>, <<4209, 4212>>, <<4226, 4226>>, <<4229, 4230>>,
      <<4237, 4237>>, <<4253, 4253>>, <<4348, 4348>>, <<4957, 4959>>, <<5906, 5908>>,
      <<5938, 5939>>, <<5970, 5971>>, <<6002, 6003>>, <<6068, 6069>>, <<6071, 6077>>,
      <<6086, 6086>>, <<6089, 6099>>, <<6103, 6103>>, <<6109, 6109>>, <<6155, 6159>>,
      <<6211, 6211>>, <<6277, 6278>>, <<6313, 6313>>, <<6432, 6434>>, <<6439, 6440>>,
      <<6450, 6450>>, <<6457, 6459>>, <<6679, 6680>>, <<6683, 6683>>, <<6742, 6742>>,
      <<6744, 6750>>, <<6752, 6752>>, <<6754, 6754>>, <<6757, 6764>>, <<6771, 6780>>,
      <<6783, 6783>>, <<6823, 6823>>, <<6832, 6862>>, <<6912, 6915>>, <<6964, 6964>>,
      <<6966, 6970>>, <<6972, 6972>>, <<6978, 6978>>, <<7019, 7027>>, <<7040, 7041>>,
      <<7074, 7077>>, <<7080, 7081>>, <<7083, 7085>>, <<7142, 7142>>, <<7144, 7145>>,
      <<7149, 7149>>, <<7151, 7153>>, <<7212, 7219>>, <<7222, 7223>>, <<7288, 7293>>,
      <<7376, 7378>>, <<7380, 7392>>, <<7394, 7400>>, <<7405, 7405>>, <<7412, 7412>>,
      <<7416, 7417>>, <<7468, 7530>>, <<7544, 7544>>, <<7579, 7679>>, <<8125, 8125>>,
      <<8127, 8129>>, <<8141, 8143>>, <<8157, 8159>>, <<8173, 8175>>, <<8189, 8190>>,
      <<8203, 8207>>, <<8216, 8217>>, <<8228, 8228>>, <<8231, 8231>>, <<8234, 8238>>,
      <<8288, 8292>>, <<8294, 8303>>, <<8305, 8305>>, <<8319, 8319>>, <<8336, 8348>>,
      <<8400, 8432>>, <<11388, 11389>>, <<11503, 11505>>, <<11631, 11631>>, <<11647, 11647>>,
      <<11744, 11775>>, <<11823, 11823>>, <<12293, 12293>>, <<12330, 12333>>, <<12337, 12341>>,
      <<12347, 12347>>, <<12441, 12446>>, <<12540, 12542>>, <<40981, 40981>>, <<42232, 42237>>,
      <<42508, 42508>>, <<42607, 42610>>, <<42612, 42621>>, <<42623, 42623>>, <<42652, 42655>>,
      <<42736, 42737>>, <<42752, 42785>>, <<42864, 42864>>, <<42888, 42890>>, <<42994, 42996>>,
      <<43000, 43001>>, <<43010, 43010>>, <<43014, 43014>>, <<43019, 43019>>, <<43045, 43046>>,
      <<43052, 43052>>, <<43204, 43205>>, <<43232, 43249>>, <<43263, 43263>>, <<43302, 43309>>,
      <<43335, 43345>>, <<43392, 43394>>, <<43443, 43443>>, <<43446, 43449>>, <<43452, 43453>>,
      <<43471, 43471>>, <<43493, 43494>>, <<43561, 43566>>, <<43569, 43570>>, <<43573, 43574>>,
      <<43587, 43587>>, <<43596, 43596>>, <<43632, 43632>>, <<43644, 43644>>, <<43696, 43696>>,
      <<43698, 43700>>, <<43703, 43704>>, <<43710, 43711>>, <<43713, 43713>>, <<43741, 43741>>,
      <<43756, 43757>>, <<43763, 43764>>, <<43766, 43766>>, <<43867, 43871>>, <<43881, 43883>>,
      <<44005, 44005>>, <<44008, 44008>>, <<44013, 44013>>, <<64286, 64286>>, <<64434, 64450>>,
      <<65024, 65039>>, <<65043, 65043>>, <<65056, 65071>>, <<65106, 65106>>, <<65109, 65109>>,
      <<65279, 65279>>, <<65287, 65287>>, <<65294, 65294>>, <<65306, 65306>>, <<65342, 65342>>,
      <<65344, 65344>>, <<65392, 65392>>, <<65438, 65439>>, <<65507, 65507>>, <<65529, 65531>>,
      <<66045, 66045>>, <<66272, 66272>>, <<66422, 66426>>, <<67456, 67461>>, <<67463, 67504>>,
      <<67506, 67514>>, <<68097, 68099>>, <<68101, 68102>>, <<68108, 68111>>, <<68152, 68154>>,
      <<68159, 68159>>, <<68325, 68326>>, <<68900, 68903>>, <<69291, 69292>>, <<69446, 69456>>,
      <<69506, 69509>>, <<69633, 69633>>, <<69688, 69702>>, <<69744, 69744>>, <<69747, 69748>>,
      <<69759, 69761>>, <<69811, 69814>>, <<69817, 69818>>, <<69821, 69821>>, <<69826, 69826>>,
      <<69837, 69837>>, <<69888, 69890>>, <<69927, 69931>>, <<69933, 69940>>, <<70003, 70003>>,
      <<70016, 70017>>, <<70070, 70078>>, <<70089, 70092>>, <<70095, 70095>>, <<70191, 70193>>,
      <<70196, 70196>>, <<70198, 70199>>, <<70206, 70206>>, <<70367, 70367>>, <<70371, 70378>>,
      <<70400, 70401>>, <<70459, 70460>>, <<70464, 70464>>, <<70502, 70508>>, <<70512, 70516>>,
      <<70712, 70719>>, <<70722, 70724>>, <<70726, 70726>>, <<70750, 70750>>, <<70835, 70840>>,
      <<70842, 70842>>, <<70847, 70848>>, <<70850, 70851>>, <<71090, 71093>>, <<71100, 71101>>,
      <<71103, 71104>>, <<71132, 71133>>, <<71219, 71226>>, <<71229, 71229>>, <<71231, 71232>>,
      <<71339, 71339>>, <<71341, 71341>>, <<71344, 71349>>, <<71351, 71351>>, <<71453, 71455>>,
      <<71458, 71461>>, <<71463, 71467>>, <<71727, 71735>>, <<71737, 71738>>, <<71995, 71996>>,
      <<71998, 71998>>, <<72003, 72003>>, <<72148, 72151>>, <<72154, 72155>>, <<72160, 72160>>,
      <<72193, 72202>>, <<72243, 72248>>, <<72251, 72254>>, <<72263, 72263>>, <<72273, 72278>>,
      <<72281, 72283>>, <<72330, 72342>>, <<72344, 72345>>, <<72752, 72758>>, <<72760, 72765>>,
      <<72767, 72767>>, <<72850, 72871>>, <<72874, 72880>>, <<72882, 72883>>, <<72885, 72886>>,
      <<73009, 73014>>, <<73018, 73018>>, <<73020, 73021>>, <<73023, 73029>>, <<73031, 73031>>,
      <<73104, 73105>>, <<73109, 73109>>, <<73111, 73111>>, <<73459, 73460>>, <<78896, 78904>>,
      <<92912, 92916>>, <<92976, 92982>>, <<92992, 92995>>, <<94031, 94031>>, <<94095, 94111>>,
      <<94176, 94177>>, <<94179, 94180>>, <<110576, 110579>>, <<110581, 110587>>,
      <<110589, 110590>>, <<113821, 113822>>, <<113824, 113827>>, <<118528, 118573>>,
      <<118576, 118598>>, <<119143, 119145>>, <<119155, 119170>>, <<119173, 119179>>,
      <<119210, 119213>>, <<119362, 119364>>, <<121344, 121398>>, <<121403, 121452>>,
      <<121461, 121461>>, <<121476, 121476>>, <<121499, 121503>>, <<121505, 121519>>,
      <<122880, 122886>>, <<122888, 122904>>, <<122907, 122913>>, <<122915, 122916>>,
      <<122918, 122922>>, <<123184, 123197>>, <<123566, 123566>>, <<123628, 123631>>,
      <<125136, 125142>>, <<125252, 125259>>, <<127995, 127999>>, <<917505, 917505>>,
      <<917536, 917631>>, <<917760, 917999>> }

\* the ranges <<lo, hi>> of the cased characters that are not case-ignorable
CasedRanges ==
    { <<65, 90>>, <<97, 122>>, <<170, 170>>, <<181, 181>>, <<186, 186>>, <<192, 214>>,
      <<216, 246>>, <<248, 442>>, <<444, 447>>, <<452, 659>>, <<661, 687>>, <<880, 883>>,
      <<886, 887>>, <<891, 893>>, <<895, 895>>, <<902, 902>>, <<904, 906>>, <<908, 908>>,
      <<910, 929>>, <<931, 1013>>, <<1015, 1153>>, <<1162, 1327>>, <<1329, 1366>>,
      <<1376, 1416>>, <<4256, 4293>>, <<4295, 4295>>, <<4301, 4301>>, <<4304, 4346>>,
      <<4349, 4351>>, <<5024, 5109>>, <<5112, 5117>>, <<7296, 7304>>, <<7312, 7354>>,
      <<7357, 7359>>, <<7424, 7467>>, <<7531, 7543>>, <<7545, 7578>>, <<7680, 7957>>,
      <<7960, 7965>>, <<7968, 8005>>, <<8008, 8013>>, <<8016, 8023>>, <<8025, 8025>>,
      <<8027, 8027>>, <<8029, 8029>>, <<8031, 8061>>, <<8064, 8116>>, <<8118, 8124>>,
      <<8126, 8126>>, <<8130, 8132>>, <<8134, 8140>>, <<8144, 8147>>, <<8150, 8155>>,
      <<8160, 8172>>, <<8178, 8180>>, <<8182, 8188>>, <<8450, 8450>>, <<8455, 8455>>,
      <<8458, 8467>>, <<8469, 8469>>, <<8473, 8477>>, <<8484, 8484>>, <<8486, 8486>>,
      <<8488, 8488>>, <<8490, 8493>>, <<8495, 8500>>, <<8505, 8505>>, <<8508, 8511>>,
      <<8517, 8521>>, <<8526, 8526>>, <<8544, 8575>>, <<8579, 8580>>, <<9398, 9449>>,
      <<11264, 11387>>, <<11390, 11492>>, <<11499, 11502>>, <<11506, 11507>>, <<11520, 11557>>,
      <<11559, 11559>>, <<11565, 11565>>, <<42560, 42605>>, <<42624, 42651>>, <<42786, 42863>>,
      <<42865, 42887>>, <<42891, 42894>>, <<42896, 42954>>, <<42960, 42961>>, <<42963, 42963>>,
      <<42965, 42969>>, <<42997, 42998>>, <<43002, 43002>>, <<43824, 43866>>, <<43872, 43880>>,
      <<43888, 43967>>, <<64256, 64262>>, <<64275, 64279>>, <<65313, 65338>>, <<65345, 65370>>,
      <<66560, 66639>>, <<66736, 66771>>, <<66776, 66811>>, <<66928, 66938>>, <<66940, 66954>>,
      <<66956, 66962>>, <<66964, 66965>>, <<66967, 66977>>, <<66979, 66993>>, <<66995, 67001>>,
      <<67003, 67004>>, <<68736, 68786>>, <<68800, 68850>>, <<71840, 71903>>, <<93760, 93823>>,
      <<119808, 119892>>, <<119894, 119964>>, <<119966, 119967>>, <<119970, 119970>>,
      <<119973, 119974>>, <<119977, 119980>>, <<119982, 119993>>, <<119995, 119995>>,
      <<119997, 120003>>, <<120005, 120069>>, <<120071, 120074>>, <<120077, 120084>>,
      <<120086, 120092>>, <<120094, 120121>>, <<120123, 120126>>, <<120128, 120132>>,
      <<120134, 120134>>, <<120138, 120144>>, <<120146, 120485>>, <<120488, 120512>>,
      <<120514, 120538>>, <<120540, 120570>>, <<120572, 120596>>, <<120598, 120628>>,
      <<120630, 120654>>, <<120656, 120686>>, <<120688, 120712>>, <<120714, 120744>>,
      <<120746, 120770>>, <<120772, 120779>>, <<122624, 122633>>, <<122635, 122654>>,
      <<125184, 125251>>, <<127280, 127305>>, <<127312, 127337>>, <<127344, 127369>> }

InRanges(c, ranges) == \E r \in ranges : r[1] <= c /\ c <= r[2]

\* str.lower on one character that maps to one character; below U+00C0 only
\* "A".."Z" change, and no Hangul syllable does
LowerChar(c) ==
    IF c \in 65..90 THEN c + 32
    ELSE IF c < 192 \/ c \in 44032..55203 THEN c
    ELSE LET hit == {r \in LowerRuns : r[1] <= c /\ c <= r[2] /\ (c - r[1]) % r[3] = 0}
         IN  IF hit = {} THEN c ELSE c + (CHOOSE r \in hit : TRUE)[4]

\* the capital sigma at i ends a word: the nearest character before it that is
\* not case-ignorable is cased, and the nearest such character after it,
\* if any, is not
FinalSigma(text, i) ==
    LET before == {j \in 1..(i - 1) : ~InRanges(text[j], CaseIgnorableRanges)}
        after  == {j \in (i + 1)..Len(text) : ~InRanges(text[j], CaseIgnorableRanges)}
    IN  /\ before # {}
        /\ InRanges(text[CHOOSE j \in before : \A k \in before : k <= j], CasedRanges)
        /\ \/ after = {}
           \/ ~InRanges(text[CHOOSE j \in after : \A k \in after : j <= k], CasedRanges)

\* what str.lower puts for the character at i: U+0130 gives "i" and U+0307,
\* a capital sigma that ends a word gives the final sigma
LowerAt(text, i) ==
    IF text[i] = 304 THEN <<105, 775>>
    ELSE IF text[i] = 931 /\ FinalSigma(text, i) THEN <<962>>
    ELSE <<LowerChar(text[i])>>

\* str.lower(): the characters of text in order, each replaced by LowerAt
Lower(text) ==
    IF \A i \in DOMAIN text : text[i] # 304
    THEN AsTuple([i \in DOMAIN text |-> LowerAt(text, i)[1]])
    ELSE LET first == AsTuple([i \in DOMAIN text |->
                         i + Cardinality({j \in 1..(i - 1) : text[j] = 304})])
             n     == Len(text) + Cardinality({j \in DOMAIN text : text[j] = 304})
         IN  AsTuple([k \in 1..n |->
                 LET i == CHOOSE x \in DOMAIN text :
                              first[x] <= k /\ k < first[x] + Len(LowerAt(text, x))
                 IN  LowerAt(text, i)[k - first[i] + 1]])

\* str.split(): the maximal runs of characters that are not white space,
\* from left to right
Split(text) ==
    LET starts == {i \in DOMAIN text :
                      ~IsSpace(text[i]) /\ (i = 1 \/ IsSpace(text[i - 1]))}
        ends   == {i \in DOMAIN text :
                      ~IsSpace(text[i]) /\ (i = Len(text) \/ IsSpace(text[i + 1]))}
        from   == Ascending(starts)
        to     == Ascending(ends)
    IN  AsTuple([k \in DOMAIN from |-> SubSeq(text, from[k], to[k])])

\* str.strip(): without the leading and the trailing white space
Strip(text) ==
    LET idx == {i \in DOMAIN text : ~IsSpace(text[i])}
    IN  IF idx = {} THEN <<>>
        ELSE LET lo == CHOOSE i \in idx : \A j \in idx : i <= j
                 hi == CHOOSE i \in idx : \A j \in idx : j <= i
             IN  SubSeq(text, lo, hi)

\* str.isdigit on one character: the ASCII digits, the superscript digits,
\* the Arabic-Indic and the full-width digits
IsDigitChar(c) ==
    \/ c \in 48..57
    \/ c \in {178, 179, 185}
    \/ c \in 1632..1641
    \/ c \in 65296..65305

\* variant: some character a digit
IsDigitSome(t) == \E i \in DOMAIN t : IsDigitChar(t[i])

\* str.isdigit(): not empty and every character a digit
IsDigit(t) == t # <<>> /\ \A i \in DOMAIN t : IsDigitChar(t[i])

\* sep.join(parts)
RECURSIVE JoinWith(_, _)
JoinWith(sep, parts) ==
    IF parts = <<>> THEN <<>>
    ELSE IF Len(parts) = 1 THEN parts[1]
    ELSE parts[1] \o sep \o JoinWith(sep, Tail(parts))

----------------------------------------------------------------------------
(* The literal strings of the script.                                      *)

\* the fixed members of the set `stopwords`: "", " " and 23 Korean words
\* (travel, recommendation, restaurant, hot place (two forms), information,
\*  blog, review (two forms), map, reservation, hotel, lodging, here,
\*  introduction, photo, video, course, "bak-il", really, too, location,
\*  person)
FixedStopwords ==
    { <<>>,
      <<32>>,
      <<50668, 54665>>,
      <<52628, 52380>>,
      <<47579, 51665>>,
      <<54635, 54540>>,
      <<54635, 54540, 47112, 51060, 49828>>,
      <<51221, 48372>>,
      <<48660, 47196, 44536>>,
      <<54980, 44592>>,
      <<47532, 48624>>,
      <<51648, 46020>>,
      <<50696, 50557>>,
      <<54840, 53588>>,
      <<49689, 49548>>,
      <<50668, 44592>>,
      <<49548, 44060>>,
      <<49324, 51652>>,
      <<50689, 49345>>,
      <<53076, 49828>>,
      <<48149, 51068>>,
      <<51221, 47568>>,
      <<45320, 47924>>,
      <<50948, 52824>>,
      <<49324, 46988>> }

\* default_city = "O-sa-ka" in Hangul
default_city ==
    <<50724, 49324, 52852>>

\* the rows of mock_data: after the f-string's {city_name} the title and the
\* summary continue with these characters; the link is "#"
MockTitle1 ==
    <<32, 54635, 54540, 47112, 51060, 49828, 32, 52628, 52380, 32, 45, 32, 51064, 44592, 32,
      44288, 44305, 51648, 32, 48288, 49828, 53944, 32, 53>>

MockBody1 ==
    <<50640, 49436, 32, 44032, 51109, 32, 51064, 44592, 32, 51080, 45716, 32, 44288, 44305,
      51648, 50752, 32, 47579, 51665, 51012, 32, 49548, 44060, 54633, 45768, 45796, 46, 32, 83,
      78, 83, 50640, 49436, 32, 54868, 51228, 44032, 32, 46108, 32, 54635, 49828, 54047, 46308,
      51012, 32, 47784, 50500, 48420, 50612, 50836, 46>>

MockTitle2 ==
    <<32, 50668, 54665, 32, 53076, 49828, 32, 45, 32, 54616, 47336, 32, 51068, 51221, 32,
      50756, 48317, 32, 44032, 51060, 46300>>

MockBody2 ==
    <<32, 50668, 54665, 51012, 32, 50948, 54620, 32, 52572, 51201, 51032, 32, 54616, 47336, 32,
      53076, 49828, 47484, 32, 52628, 52380, 54633, 45768, 45796, 46, 32, 54952, 50984, 51201,
      51064, 32, 51060, 46041, 32, 44221, 47196, 50752, 32, 54596, 49688, 32, 48169, 47928,
      51648, 47484, 32, 54869, 51064, 54616, 49464, 50836, 46>>

MockTitle3 ==
    <<32, 47579, 51665, 32, 47532, 49828, 53944, 32, 45, 32, 54788, 51648, 51064, 32, 52628,
      52380, 32, 49885, 45817>>

MockBody3 ==
    <<32, 54788, 51648, 51064, 46308, 51060, 32, 52628, 52380, 54616, 45716, 32, 47579, 51665,
      46308, 51012, 32, 51221, 47532, 54664, 49845, 45768, 45796, 46, 32, 49704, 51008, 32,
      47579, 51665, 48512, 53552, 32, 50976, 47749, 32, 47112, 49828, 53664, 46993, 44620,
      51648, 32, 45796, 50577, 54620, 32, 50741, 49496, 51012, 32, 51228, 44277, 54633, 45768,
      45796, 46>>

MockTitle4 ==
    <<32, 50556, 44221, 32, 47749, 49548, 32, 45, 32, 47196, 47592, 54001, 54620, 32, 48164,
      32, 54413, 44221>>

MockBody4 ==
    <<51032, 32, 50500, 47492, 45796, 50868, 32, 50556, 44221, 51012, 32, 44048, 49345, 54624,
      32, 49688, 32, 51080, 45716, 32, 47749, 49548, 46308, 51012, 32, 49548, 44060, 54633,
      45768, 45796, 46, 32, 45936, 51060, 53944, 32, 53076, 49828, 47196, 46020, 32, 52628,
      52380, 54633, 45768, 45796, 46>>

MockTitle5 ==
    <<32, 49660, 54609, 32, 44032, 51060, 46300, 32, 45, 32, 49660, 54609, 47792, 44284, 32,
      49884, 51109, 32, 51221, 48372>>

MockBody5 ==
    <<50640, 49436, 32, 49660, 54609, 54616, 44592, 32, 51339, 51008, 32, 44275, 46308, 51012,
      32, 51221, 47532, 54664, 49845, 45768, 45796, 46, 32, 44592, 45392, 54408, 48512, 53552,
      32, 47749, 54408, 44620, 51648, 32, 45796, 50577, 54620, 32, 49660, 54609, 32, 50741,
      49496, 51012, 32, 54869, 51064, 54616, 49464, 50836, 46>>

\* a row of the table: the columns "je-mok" (title), "yo-yak" (summary) and
\* "ling-keu" (link) are the fields title, body and link
Row(t, b, l) == [title |-> t, body |-> b, link |-> l]

\* the argument n=5 of both calls of generate_mock_data
MockRows == 5

\* the argument of counter.most_common
TopN == 10

Min(a, b) == IF a <= b THEN a ELSE b

mock_data(city_name) ==
    << Row(city_name \o MockTitle1, city_name \o MockBody1, <<35>>),
       Row(city_name \o MockTitle2, city_name \o MockBody2, <<35>>),
       Row(city_name \o MockTitle3, city_name \o MockBody3, <<35>>),
       Row(city_name \o MockTitle4, city_name \o MockBody4, <<35>>),
       Row(city_name \o MockTitle5, city_name \o MockBody5, <<35>>) >>

\* pd.DataFrame(mock_data[:n]), n >= 0
generate_mock_data(city_name, n) ==
    SubSeq(mock_data(city_name), 1, Min(n, Len(mock_data(city_name))))

----------------------------------------------------------------------------
(* search_places_with_ddg.  What DDGS does in one run is the record        *)
(* [called, results, raises]: the results ddgs.text yields, each a         *)
(* dictionary that may lack a key, and whether an exception ends the       *)
(* search (in DDGS(), in ddgs.text or after some results).                 *)

\* r.get(k) or "": a missing key and an empty value both give ""
GetOrEmpty(r, k) == IF k \in DOMAIN r THEN r[k] ELSE <<>>

RowOf(r) == Row(GetOrEmpty(r, "title"), GetOrEmpty(r, "body"), GetOrEmpty(r, "href"))

\* variant: without "if not href: continue"
UsableRowsKeepAll(results) == AsTuple([i \in DOMAIN results |-> RowOf(results[i])])

\* the list `rows` after the loop: a result without href is skipped
UsableRows(results) ==
    LET HasHref(row) == row.link # <<>>
    IN  SelectSeq([i \in DOMAIN results |-> RowOf(results[i])], HasHref)

\* variant: without the fallback, the table of the rows found and True
SearchNoFallback(city_name, outcome) ==
    IF outcome.raises THEN <<<<>>, FALSE>> ELSE <<UsableRows(outcome.results), TRUE>>

\* the pair (DataFrame, is_success) the function returns
search_places_with_ddg(city_name, outcome) ==
    IF outcome.raises
    THEN <<generate_mock_data(city_name, MockRows), FALSE>>
    ELSE IF UsableRows(outcome.results) = <<>>
         THEN <<generate_mock_data(city_name, MockRows), FALSE>>
         ELSE <<UsableRows(outcome.results), TRUE>>

----------------------------------------------------------------------------
(* The keyword extraction of tab_trend.                                    *)

\* what stands for the exception of a column that the frame does not have
KeyError == "KeyError"

\* df["yo-yak"].astype(str).tolist(); the frame made of no rows has no
\* columns, and selecting one raises
Summary(table) ==
    IF table = <<>> THEN KeyError ELSE AsTuple([i \in DOMAIN table |-> table[i].body])

\* variant: the summaries joined without a separator
AllTextNoSep(table) ==
    IF table = <<>> THEN KeyError ELSE JoinWith(<<>>, Summary(table))

\* all_text = " ".join(...), after the selection of the column
AllText(table) ==
    IF table = <<>> THEN KeyError ELSE JoinWith(<<32>>, Summary(table))

\* cleaned = re.sub(...)
Cleaned(text) == ReSub(text)

\* tokens = cleaned.lower().split()
Tokens(text) == Split(Lower(Cleaned(text)))

\* variant: the city as typed
NormalizedCityAsTyped(c) == c

\* normalized_city = city.strip().lower()
NormalizedCity(c) == Lower(Strip(c))

\* the set `stopwords`
Stopwords(c) == FixedStopwords \cup {NormalizedCity(c)}

\* variant: without "not t.isdigit()"
FilterTokensKeepDigits(toks, stop) ==
    LET Keep(t) == Len(t) > 1 /\ t \notin stop
    IN  SelectSeq(toks, Keep)

\* filtered_tokens = [t for t in tokens if len(t) > 1 and not t.isdigit()
\*                    and t not in stopwords]
FilterTokens(toks, stop) ==
    LET Keep(t) == Len(t) > 1 /\ ~IsDigit(t) /\ t \notin stop
    IN  SelectSeq(toks, Keep)

\* the positions at which a key enters the dictionary: its first occurrences
FirstSeen(toks) == {i \in DOMAIN toks : \A j \in 1..(i - 1) : toks[j] # toks[i]}

\* variant: a key seen again is not counted again
CounterOnce(toks) ==
    LET first == Ascending(FirstSeen(toks))
    IN  AsTuple([k \in DOMAIN first |-> <<toks[first[k]], 1>>])

\* counter = Counter(filtered_tokens): the items <<key, count>> of the
\* dictionary, in the order the keys were first added; every occurrence of a
\* key adds one to its count
Counter(toks) ==
    LET first == Ascending(FirstSeen(toks))
    IN  AsTuple([k \in DOMAIN first |->
                    <<toks[first[k]],
                      Cardinality({j \in DOMAIN toks : toks[j] = toks[first[k]]})>>])

\* sorted(items, key=count, reverse=True): the sort is stable, so an item comes
\* after the items of a greater count and after the earlier items of its own
SortedDesc(items) ==
    LET pos == AsTuple([i \in DOMAIN items |->
                   Cardinality({j \in DOMAIN items :
                      \/ items[j][2] > items[i][2]
                      \/ (items[j][2] = items[i][2] /\ j <= i)})])
    IN  AsTuple([k \in DOMAIN items |-> items[CHOOSE i \in DOMAIN items : pos[i] = k]])

\* variant: among equal counts the later item first
SortedDescTiesFirst(items) ==
    LET pos == AsTuple([i \in DOMAIN items |->
                   Cardinality({j \in DOMAIN items :
                      \/ items[j][2] > items[i][2]
                      \/ (items[j][2] = items[i][2] /\ j >= i)})])
    IN  AsTuple([k \in DOMAIN items |-> items[CHOOSE i \in DOMAIN items : pos[i] = k]])

\* variant: equal counts come out latest first
MostCommonTiesFirst(cnt, n) ==
    SubSeq(SortedDescTiesFirst(cnt), 1, Min(n, Len(cnt)))

\* variant: most_common() without n, every item
MostCommonAll(cnt, n) == SortedDesc(cnt)

\* Counter.most_common(n), n >= 0: heapq.nlargest(n, items, key=count), which
\* is sorted(items, key=count, reverse=True)[:n]
most_common(cnt, n) == SubSeq(SortedDesc(cnt), 1, Min(n, Len(cnt)))

\* variant: the chart whatever the list holds
ShownForKeywordsAlwaysChart(top) == "chart"

\* "if top_keywords:" the bar chart, else the st.info placeholder
ShownForKeywords(top) == IF top # <<>> THEN "chart" ELSE "info"

----------------------------------------------------------------------------
(* The inputs: what the user types and what the web search yields.         *)

\* "Seo-ul" in Hangul
CitySeoul ==
    <<49436, 50872>>

\* " Osaka ", with a capital and a space on both sides
CityOsakaPadded ==
    <<32, 79, 115, 97, 107, 97, 32>>

\* "osaKa" with the Kelvin sign U+212A, whose lower-case form is "k"
CityOsakaKelvin ==
    <<111, 115, 97, 8490, 97>>

Cities == {default_city, CitySeoul, CityOsakaPadded, CityOsakaKelvin}

\* the two sidebar dates, as day numbers
Days == 0..MaxDay

\* "2024<nyeon> 3<bak>4<il> <ko-seu>!"
BodyDigits ==
    <<50, 48, 50, 52, 45380, 32, 51, 48149, 52, 51068, 32, 53076, 49828, 33>>

\* "2024 <nyeon> 3<bak>4<il> <ko-seu>!", the year and <nyeon> apart
BodyDigitsApart ==
    <<50, 48, 50, 52, 32, 45380, 32, 51, 48149, 52, 51068, 32, 53076, 49828, 33>>

\* "<Seo-ul> <mat-jip> <chu-cheon> <Myeong-dong> <Myeong-dong> <beu-reon-chi>"
BodySeoul1 ==
    <<49436, 50872, 32, 47579, 51665, 32, 52628, 52380, 32, 47749, 46041, 32, 47749, 46041, 32,
      48652, 47088, 52824>>

\* "<Myeong-dong> <syo-ping> <geo-ri> <beu-reon-chi>"
BodySeoul2 ==
    <<47749, 46041, 32, 49660, 54609, 32, 44144, 47532, 32, 48652, 47088, 52824>>

\* "Osaka food OSAKA ramen osaka Ramen"
BodyOsaka ==
    <<79, 115, 97, 107, 97, 32, 102, 111, 111, 100, 32, 79, 83, 65, 75, 65, 32, 114, 97, 109,
      101, 110, 32, 111, 115, 97, 107, 97, 32, 82, 97, 109, 101, 110>>

\* " \t\n"
BodyBlank ==
    <<32, 9, 10>>

\* "ab<hiragana no>cd"
BodyKana ==
    <<97, 98, 12398, 99, 100>>

\* "2024 <nyeon> <ko-seu>!": a year, one syllable and a stop word
BodyNoSurvivor ==
    <<50, 48, 50, 52, 32, 45380, 32, 53076, 49828, 33>>

\* the summaries a live result may carry
Bodies ==
    { <<>>, BodyBlank, BodyDigits, BodyDigitsApart, BodyNoSurvivor, BodySeoul1,
      BodySeoul2, BodyOsaka, BodyKana }

\* "T" and "u": a title and an address
SomeTitle == <<84>>
SomeHref == <<117>>

\* the dictionaries ddgs.text may yield: complete ones, one with an empty
\* href, one without the key href, one with the key href alone
Results ==
    {[title |-> SomeTitle, href |-> SomeHref, body |-> b] : b \in Bodies}
    \cup { [title |-> SomeTitle, href |-> <<>>, body |-> BodyOsaka],
           [title |-> SomeTitle, body |-> BodySeoul1],
           [href |-> SomeHref] }

SeqsUpTo(S, n) == UNION {[1..k -> S] : k \in 0..n}

NotCalled == [called |-> FALSE, results |-> <<>>, raises |-> FALSE]

\* a search that ends normally after up to MaxResults results, or that raises
\* before the first result or after a first, usable one
DdgsOutcomes ==
    {[called |-> TRUE, results |-> s, raises |-> FALSE] : s \in SeqsUpTo(Results, MaxResults)}
    \cup {[called |-> TRUE, results |-> s, raises |-> TRUE] :
             s \in SeqsUpTo({[title |-> SomeTitle, href |-> SomeHref, body |-> BodyOsaka]}, 1)}

----------------------------------------------------------------------------
(* The script, top to bottom.  `shown` holds the elements put on the page. *)

Init ==
    /\ city \in Cities
    /\ start_date \in Days
    /\ end_date \in Days
    /\ ddgs = NotCalled
    /\ df = <<>>
    /\ is_success = FALSE
    /\ tokens = <<>>
    /\ filtered_tokens = <<>>
    /\ top_keywords = <<>>
    /\ shown = {}
    /\ pc = "sidebar"

\* the side bar: the error under the dates when they are out of order
Sidebar ==
    /\ pc = "sidebar"
    /\ shown' = IF start_date > end_date THEN {"sidebar_error"} ELSE {}
    /\ pc' = "main"
    /\ UNCHANGED <<city, start_date, end_date, ddgs, df, is_success,
                   tokens, filtered_tokens, top_keywords>>

\* "if start_date <= end_date:" the header, the search and its warning
MainSearch ==
    /\ pc = "main"
    /\ start_date <= end_date
    /\ \E outcome \in DdgsOutcomes :
          /\ ddgs' = outcome
          /\ df' = search_places_with_ddg(city, outcome)[1]
          /\ is_success' = search_places_with_ddg(city, outcome)[2]
    /\ shown' = shown \cup {"subheader"}
                      \cup (IF ~is_success' THEN {"fallback_warning"} ELSE {})
    /\ pc' = "results"
    /\ UNCHANGED <<city, start_date, end_date, tokens, filtered_tokens, top_keywords>>

\* "else:" of the date test
InvalidRange ==
    /\ pc = "main"
    /\ start_date > end_date
    /\ shown' = shown \cup {"range_warning"}
    /\ pc' = "done"
    /\ UNCHANGED <<city, start_date, end_date, ddgs, df, is_success,
                   tokens, filtered_tokens, top_keywords>>

\* "with tab_trend:" the keywords of the table and the chart or the notice
TabTrendBody ==
    LET all_text == AllText(df)
        toks     == Tokens(all_text)
        filtered == FilterTokens(toks, Stopwords(city))
        counter  == Counter(filtered)
    IN  /\ tokens' = toks
        /\ filtered_tokens' = filtered
        /\ top_keywords' = most_common(counter, TopN)

\* "if df.empty:" the warning, "else:" the two tabs and the caption
ShowResults ==
    /\ pc = "results"
    /\ IF df = <<>>
       THEN /\ shown' = shown \cup {"no_results_warning"}
            /\ UNCHANGED <<tokens, filtered_tokens, top_keywords>>
       ELSE /\ TabTrendBody
            /\ shown' = shown \cup {"tabs", ShownForKeywords(top_keywords'),
                                    "reviews", "caption"}
    /\ pc' = "done"
    /\ UNCHANGED <<city, start_date, end_date, ddgs, df, is_success>>

Next == Sidebar \/ MainSearch \/ InvalidRange \/ ShowResults

Spec == Init /\ [][Next]_vars

----------------------------------------------------------------------------
(* What the claims are stated with.                                        *)

\* the extraction has run: it always ends with the chart or the notice
Extracted == "chart" \in shown \/ "info" \in shown

Range(s) == {s[i] : i \in DOMAIN s}

Keywords == {top_keywords[i][1] : i \in DOMAIN top_keywords}

CountIn(s, t) == Cardinality({i \in DOMAIN s : s[i] = t})

\* the first position of t in s, Len(s) + 1 when it is not there
FirstIndex(s, t) ==
    IF t \in Range(s) THEN CHOOSE i \in DOMAIN s : s[i] = t /\ \A j \in 1..(i - 1) : s[j] # t
    ELSE Len(s) + 1

\* every character one of "0".."9"
AllDecimalDigits(t) == t # <<>> /\ \A i \in DOMAIN t : t[i] \in 48..57

\* k is a run of consecutive characters of s
IsSubstring(k, s) ==
    \E p \in 1..(Len(s) - Len(k) + 1) : SubSeq(s, p, p + Len(k) - 1) = k

\* a lower-case ASCII letter, an ASCII digit or a Hangul syllable
IsKeywordChar(c) == c \in 97..122 \/ c \in 48..57 \/ c \in 44032..55203

\* "2024", "<nyeon>", "2024<nyeon>", "3<bak>4<il>", "<ko-seu>"
Tok2024 == <<50, 48, 50, 52>>
TokNyeon == <<45380>>
Tok2024Nyeon == <<50, 48, 50, 52, 45380>>
Tok3Bak4Il == <<51, 48149, 52, 51068>>
TokCourse == <<53076, 49828>>

\* a token of the stream that is not among the kept ones
Dropped(t) == t \in Range(tokens) /\ t \notin Range(filtered_tokens)

\* the search of this run failed: it raised, or no result had a link
SearchFailed ==
    \/ ddgs.raises
    \/ \A i \in DOMAIN ddgs.results : GetOrEmpty(ddgs.results[i], "href") = <<>>

----------------------------------------------------------------------------
(* The claims.                                                             *)

\* C1: the keyword list is ordered by non-increasing frequency, and two
\* keywords of equal frequency are in the order in which each first occurs in
\* the cleaned token stream.
Thm_C1_RankOrder ==
    Extracted =>
        \A i, j \in DOMAIN top_keywords :
            i < j =>
                \/ top_keywords[i][2] > top_keywords[j][2]
                \/ /\ top_keywords[i][2] = top_keywords[j][2]
                   /\ FirstIndex(tokens, top_keywords[i][1])
                        < FirstIndex(tokens, top_keywords[j][1])

\* a list with a tie, and with a keyword ranked above one that occurs earlier
Wit_C1_TieAndReorder ==
    /\ Extracted
    /\ \E i, j \in DOMAIN top_keywords :
          i < j /\ top_keywords[i][2] = top_keywords[j][2]
    /\ \E i, j \in DOMAIN top_keywords :
          /\ i < j
          /\ top_keywords[i][2] > top_keywords[j][2]
          /\ FirstIndex(tokens, top_keywords[i][1]) > FirstIndex(tokens, top_keywords[j][1])

\* C2: the frequency of each returned keyword is the number of tokens of the
\* cleaned, lower-cased, split token stream equal to it, and is at least 1.
Thm_C2_FrequencyIsCount ==
    Extracted =>
        \A i \in DOMAIN top_keywords :
            /\ top_keywords[i][2] = CountIn(tokens, top_keywords[i][1])
            /\ top_keywords[i][2] >= 1

\* a keyword counted three times beside one counted once
Wit_C2_Repeated ==
    /\ Extracted
    /\ \E i, j \in DOMAIN top_keywords :
          top_keywords[i][2] >= 3 /\ top_keywords[j][2] = 1

\* C3: no returned keyword is in the effective stop-word set (the fixed stop
\* words and the trimmed, lower-cased subject), has length 1 or less, or
\* consists of decimal digits only.
Thm_C3_NoNoiseKeyword ==
    Extracted =>
        \A k \in Keywords :
            /\ k \notin FixedStopwords \cup {Lower(Strip(city))}
            /\ Len(k) > 1
            /\ ~AllDecimalDigits(k)

\* the stream holds a stop word, a one-character token and a number, and
\* something is returned
Wit_C3_NoiseInStream ==
    /\ Extracted
    /\ top_keywords # <<>>
    /\ \E t \in Range(tokens) : t \in FixedStopwords
    /\ \E t \in Range(tokens) : Len(t) = 1
    /\ \E t \in Range(tokens) : AllDecimalDigits(t)

\* C4 as claimed: the extractor takes a topN and returns at most topN pairs,
\* whatever topN is asked for, and at most the number of distinct tokens that
\* survive filtering.
Orig_C4_AnyTopN ==
    Extracted =>
        /\ \A topN \in 1..TopN : Len(top_keywords) <= topN
        /\ Len(top_keywords) <= Cardinality(Range(filtered_tokens))

\* C4, amended: the number of returned pairs is at most 10, the fixed argument
\* of most_common (the script takes no topN), and at most the number of
\* distinct tokens that survive filtering.
Thm_C4_AtMostTen ==
    Extracted =>
        /\ Len(top_keywords) <= TopN
        /\ Len(top_keywords) <= Cardinality(Range(filtered_tokens))

\* more than ten distinct tokens survive and ten pairs are returned
Wit_C4_Truncated ==
    /\ Extracted
    /\ Cardinality(Range(filtered_tokens)) > TopN
    /\ Len(top_keywords) = TopN

\* C5: the trimmed, lower-cased subject is never a returned keyword, however
\* the subject is typed and however often it occurs in the snippets.
Thm_C5_SubjectExcluded ==
    Extracted => Lower(Strip(city)) \notin Keywords

\* a subject typed with a capital and with spaces around it occurs more often
\* in the stream than any returned keyword
Wit_C5_SubjectDominates ==
    /\ Extracted
    /\ Strip(city) # city
    /\ Lower(Strip(city)) # Strip(city)
    /\ top_keywords # <<>>
    /\ \A i \in DOMAIN top_keywords :
          CountIn(tokens, Lower(Strip(city))) > top_keywords[i][2]

\* the snippets are all white space, or no token of them survives the filter
Degenerate ==
    \/ \A i \in DOMAIN df : \A p \in DOMAIN df[i].body : IsSpace(df[i].body[p])
    \/ \A t \in Range(tokens) :
          \/ Len(t) <= 1
          \/ AllDecimalDigits(t)
          \/ t \in FixedStopwords \cup {Lower(Strip(city))}

Thm_C7_FallbackOnFailure ==
    ddgs.called =>
        /\ SearchFailed =>
              /\ ~is_success
              /\ Len(df) = 5
              /\ df = mock_data(city)
              /\ \A i \in DOMAIN df :
                    /\ SubSeq(df[i].body, 1, Len(city)) = city
                    /\ SubSeq(df[i].title, 1, Len(city)) = city
              /\ "fallback_warning" \in shown
              /\ pc = "done" =>
                    /\ Extracted
                    /\ tokens = Split(Lower(ReSub(JoinWith(<<32>>, Summary(mock_data(city))))))
        /\ is_success =>
              /\ ~SearchFailed
              /\ df = UsableRows(ddgs.results)
              /\ "fallback_warning" \notin shown

\* the search raised after a first result and the page is complete
Wit_C7_RaisedAfterResult ==
    /\ pc = "done"
    /\ ddgs.raises
    /\ ddgs.results # <<>>
    /\ Len(df) = 5
    /\ "fallback_warning" \in shown
    /\ top_keywords # <<>>

\* C8 as claimed: for the snippet "2024<nyeon> 3<bak>4<il> <ko-seu>!" the
\* extractor drops the token "2024", drops the token "<nyeon>", drops the stop
\* word "<ko-seu>" and keeps "3<bak>4<il>".
Orig_C8_YearTokenDropped ==
    (Extracted /\ Summary(df) = <<BodyDigits>>) =>
        /\ Dropped(Tok2024)
        /\ Dropped(TokNyeon)
        /\ Dropped(TokCourse)
        /\ Tok3Bak4Il \in Keywords

\* C8, amended: that snippet has the tokens "2024<nyeon>", "3<bak>4<il>" and
\* "<ko-seu>"; the stop word is dropped and both mixed tokens are kept, once
\* each.  "2024" and "<nyeon>" are dropped when they stand apart, as in
\* "2024 <nyeon> 3<bak>4<il> <ko-seu>!".  A token longer than one character
\* that is no stop word is dropped exactly when all its characters are digits.
Thm_C8_MixedTokensKept ==
    Extracted =>
        /\ Summary(df) = <<BodyDigits>> =>
              /\ tokens = <<Tok2024Nyeon, Tok3Bak4Il, TokCourse>>
              /\ top_keywords = << <<Tok2024Nyeon, 1>>, <<Tok3Bak4Il, 1>> >>
        /\ Summary(df) = <<BodyDigitsApart>> =>
              /\ tokens = <<Tok2024, TokNyeon, Tok3Bak4Il, TokCourse>>
              /\ top_keywords = << <<Tok3Bak4Il, 1>> >>
        /\ \A t \in Range(tokens) :
              (Len(t) > 1 /\ t \notin FixedStopwords \cup {Lower(Strip(city))}) =>
                  (t \notin Range(filtered_tokens) <=> AllDecimalDigits(t))

\* the extractor has run on that one snippet
Wit_C8_Scenario ==
    /\ Extracted
    /\ Summary(df) = <<BodyDigits>>
    /\ Len(top_keywords) = 2

\* C9: every returned keyword is, after lower-casing, a run of consecutive
\* characters of one snippet, and consists of lower-case ASCII letters,
\* ASCII digits and Hangul syllables only.
Thm_C9_KeywordFromOneSnippet ==
    Extracted =>
        \A k \in Keywords :
            /\ \E i \in DOMAIN df : IsSubstring(k, Lower(df[i].body))
            /\ \A p \in DOMAIN k : IsKeywordChar(k[p])

\* a snippet ends in a letter and the next begins with one, and a snippet has
\* a character outside the class between two letters
Wit_C9_AdjacentRuns ==
    /\ Extracted
    /\ top_keywords # <<>>
    /\ \E i \in 1..(Len(df) - 1) :
          /\ df[i].body # <<>> /\ df[i + 1].body # <<>>
          /\ IsKeywordChar(LowerChar(df[i].body[Len(df[i].body)]))
          /\ IsKeywordChar(LowerChar(df[i + 1].body[1]))
    /\ \E i \in DOMAIN df : \E p \in 2..(Len(df[i].body) - 1) :
          /\ ~IsKept(df[i].body[p])
          /\ IsKeywordChar(LowerChar(df[i].body[p - 1]))
          /\ IsKeywordChar(LowerChar(df[i].body[p + 1]))

\* C10: the table the search returns has at least one row, and with the flag
\* True every row has a link; with the dates in order the "no results"
\* warning is never shown and the extractor runs; with the start date after
\* the end date neither the search nor the extractor runs.
Thm_C10_TableNeverEmpty ==
    /\ ddgs.called => Len(df) >= 1
    /\ (ddgs.called /\ is_success) => \A i \in DOMAIN df : df[i].link # <<>>
    /\ (pc = "done" /\ start_date <= end_date) =>
          /\ ddgs.called
          /\ "no_results_warning" \notin shown
          /\ Extracted
    /\ start_date > end_date => (~ddgs.called /\ ~Extracted)

\* a live search of which one result had no link, shown to the end
Wit_C10_LinklessSkipped ==
    /\ pc = "done"
    /\ is_success
    /\ Len(df) < Len(ddgs.results)
    /\ Extracted

====
